---- MODULE Spec2Model ----
(***************************************************************************)
(* Kansas City FIFA signup service: the POST /signup handler (rate limit,  *)
(* form validation, dedupe marker in the cache, insert, notification job), *)
(* the send_sms_async worker task with the SMS service it calls, and the   *)
(* read-only routes GET /, GET /success/<id>, GET /health and GET /metrics,*)
(* as a state machine over the data store, the cache, the rate-limit       *)
(* counters and the task queue.                                            *)
(*                                                                         *)
(* Strings are sequences of one-character strings, so that strip(),        *)
(* lower() and the digit filter are computed character by character.       *)
(* A nullable column is a set: {} is NULL/None, {v} is the value v.        *)
(***************************************************************************)
EXTENDS Integers, Sequences, FiniteSets, TLC

\* ---------------------------------------------------------------- bounds
\* Number of POST /signup requests that can be in flight in one behaviour.
MaxReqs == 2
\* Number of times the clock advances in one behaviour.
MaxTicks == 1
\* Number of times the task queue hands one job to a worker.
MaxDeliveries == 2
\* Number of POST /signup requests in one rate-limit window.
MaxSubmits == 6
\* runs of the command line's test-sms
MaxCommands == 2

\* ------------------------------------------------------ program constants
\* cache.set(cache_key, True, timeout=3600)
MARKER_TTL == 3600
\* @limiter.limit("5 per minute") on POST /signup
SUBMIT_LIMIT == 5
\* the window of the "per minute" limits, in seconds
LIMIT_WINDOW == 60
\* @limiter.limit("20 per minute") on GET /
VIEW_LIMIT == 20
\* @cache.cached(timeout=300, key_prefix='form_config') on GET /
FORM_TTL == 300
\* the seconds of a day: utcnow().replace(hour=0, minute=0, second=0, microsecond=0)
DAY == 86400
\* Length(min=2, max=100) on name
NAME_MIN == 2
NAME_MAX == 100
\* Length(max=120) on email
EMAIL_MAX == 120
\* Length(max=20) on phone
PHONE_MAX == 20
\* Length(min=5, max=10) on zip_code
ZIP_MIN == 5
ZIP_MAX == 10

\* ------------------------------------------------------------- strings
None == {}
Some(v) == {v}
TheValue(opt) == CHOOSE v \in opt : TRUE

Whitespace == {" "}
Digits == {"0", "1", "2", "3", "4", "5", "6", "7", "8", "9"}

\* str.lower() on one character
LowerChar(c) ==
    CASE c = "A" -> "a"
      [] c = "B" -> "b"
      [] c = "L" -> "l"
      [] c = "X" -> "x"
      [] OTHER -> c

\* str.lower()
Lower(s) == [i \in 1..Len(s) |-> LowerChar(s[i])]

RECURSIVE LStrip(_)
LStrip(s) == IF s # <<>> /\ Head(s) \in Whitespace THEN LStrip(Tail(s)) ELSE s

RECURSIVE RStrip(_)
RStrip(s) ==
    IF s # <<>> /\ s[Len(s)] \in Whitespace THEN RStrip(SubSeq(s, 1, Len(s) - 1)) ELSE s

\* str.strip()
Strip(s) == LStrip(RStrip(s))

\* ''.join(filter(str.isdigit, phone))
RECURSIVE DigitsOnly(_)
DigitsOnly(s) ==
    IF s = <<>> THEN <<>>
    ELSE IF Head(s) \in Digits THEN <<Head(s)>> \o DigitsOnly(Tail(s))
    ELSE DigitsOnly(Tail(s))

\* number of occurrences of character c in s
CountChar(s, c) == Cardinality({i \in 1..Len(s) : s[i] = c})

\* position of the first occurrence of c in s (0 when absent)
IndexOf(s, c) ==
    IF \E i \in 1..Len(s) : s[i] = c
    THEN CHOOSE i \in 1..Len(s) : s[i] = c /\ \A k \in 1..(i - 1) : s[k] # c
    ELSE 0

\* --------------------------------------------------------- form validation
\* get_event_options(): the default catalog (DEFAULT_EVENTS unset in the environment)
default_events ==
    << "World Cup Viewing Parties", "Skills Challenge & Games",
       "Photo Booth Experience", "Food Truck Festival",
       "Live Music & Entertainment", "Meet & Greet with Players",
       "FIFA Merchandise Shopping", "Kids Zone Activities" >>

get_event_options == default_events

Range(s) == {s[i] : i \in 1..Len(s)}

\* wtforms DataRequired on a string field: the data is non-empty after strip()
DataRequired(s) == Strip(s) # <<>>

\* wtforms Length(min, max): the raw length of the data
LengthOk(s, lo, hi) == Len(s) >= lo /\ Len(s) <= hi

\* wtforms Email(): one "@", a non-empty local part, a dotted domain, no blanks
ValidEmailSyntax(s) ==
    /\ CountChar(s, "@") = 1
    /\ \A i \in 1..Len(s) : s[i] \notin Whitespace
    /\ LET at == IndexOf(s, "@")
           dom == SubSeq(s, at + 1, Len(s))
       IN /\ at > 1
          /\ Len(dom) >= 3
          /\ CountChar(dom, ".") >= 1
          /\ Head(dom) # "."
          /\ dom[Len(dom)] # "."

\* the choice check that looks at the first selected label only
ValidChoices_FirstOnly(data, choices) ==
    data = <<>> \/ Head(data) \in Range(choices)

\* SelectMultipleField.pre_validate: every selected label is one of the choices
ValidChoices(data, choices) == \A e \in Range(data) : e \in Range(choices)

\* the selection left optional
DataRequiredChoices_Optional(data) == TRUE

\* wtforms DataRequired on the multiple-choice field: the list is not empty
DataRequiredChoices(data) == data # <<>>

\* SignupForm: the failed validators of each field (all fields are validated)
FormErrors(form) ==
    [ name |->
        IF ~DataRequired(form.name) THEN {"required"}
        ELSE IF ~LengthOk(form.name, NAME_MIN, NAME_MAX) THEN {"length"} ELSE {},
      email |->
        IF ~DataRequired(form.email) THEN {"required"}
        ELSE (IF ~ValidEmailSyntax(form.email) THEN {"format"} ELSE {})
             \cup (IF ~LengthOk(form.email, 0, EMAIL_MAX) THEN {"length"} ELSE {}),
      phone |->
        IF ~LengthOk(form.phone, 0, PHONE_MAX) THEN {"length"} ELSE {},
      zip_code |->
        IF ~DataRequired(form.zip_code) THEN {"required"}
        ELSE IF ~LengthOk(form.zip_code, ZIP_MIN, ZIP_MAX) THEN {"length"} ELSE {},
      events_interested |->
        (IF ~ValidChoices(form.events_interested, get_event_options)
            THEN {"choice"} ELSE {})
        \cup (IF ~DataRequiredChoices(form.events_interested) THEN {"required"} ELSE {}) ]

FormFields == {"name", "email", "phone", "zip_code", "events_interested"}

\* form.errors: the fields that have a failure to show
form_errors(form) == {f \in FormFields : FormErrors(form)[f] # {}}

\* form.validate_on_submit()
validate_on_submit(form) == \A f \in FormFields : FormErrors(form)[f] = {}

\* ------------------------------------------------------------- the inputs
N_ok == <<"A", "l">>
E_lower == <<"a", "@", "x", ".", "c">>
E_upper == <<"A", "@", "x", ".", "c">>
E_bad == <<"a", "x">>
P_none == <<>>
P_blank == <<" ">>
P_ok == <<"5", "5", "5", "1", "2", "3", "4", "5", "6", "7">>
P_bad == <<"1", "2", "3">>
Z_ok == <<"6", "4", "1", "1", "1">>
Ev_ok == <<"World Cup Viewing Parties">>

BaseForm ==
    [name |-> N_ok, email |-> E_lower, phone |-> P_ok, zip_code |-> Z_ok,
     events_interested |-> Ev_ok]

ValidForms ==
    {[BaseForm EXCEPT !.email = e] : e \in {E_lower, E_upper}}
    \cup {[BaseForm EXCEPT !.phone = p] : p \in {P_none, P_blank, P_bad}}

InvalidForms ==
    {[BaseForm EXCEPT !.name = <<>>], [BaseForm EXCEPT !.email = E_bad]}

Forms == ValidForms \cup InvalidForms

\* a string of n characters c
Repeat(c, n) == [i \in 1..n |-> c]

\* submissions that break one rule of one field, two of them only once the
\* surrounding blanks are taken off
FieldViolations ==
    {[BaseForm EXCEPT !.name = v] :
        v \in {<<>>, <<"A">>, <<" ", "A">>, Repeat("a", NAME_MAX + 1)}}
    \cup {[BaseForm EXCEPT !.email = v] :
        v \in {<<>>, E_bad, Repeat("a", EMAIL_MAX - 3) \o <<"@", "x", ".", "c">>}}
    \cup {[BaseForm EXCEPT !.phone = Repeat("5", PHONE_MAX + 1)]}
    \cup {[BaseForm EXCEPT !.zip_code = v] :
        v \in {<<>>, <<"6", "4", "1", "1">>, <<"6", "4", "1", "1", " ">>,
               Repeat("6", ZIP_MAX + 1)}}
    \cup {[BaseForm EXCEPT !.events_interested = v] :
        v \in {<<>>, <<"Fan Zone">>, <<"World Cup Viewing Parties", "Fan Zone">>}}

\* submissions that break the rules of several fields at once: three fields,
\* all five, two, and a name too short once trimmed next to a missing email
SeveralViolations ==
    { [BaseForm EXCEPT !.name = <<>>, !.email = E_bad, !.zip_code = <<"6", "4", "1", "1">>],
      [name |-> <<"A">>, email |-> <<>>, phone |-> Repeat("5", PHONE_MAX + 1),
       zip_code |-> Repeat("6", ZIP_MAX + 1), events_interested |-> <<>>],
      [BaseForm EXCEPT !.email = E_bad, !.events_interested = <<"Fan Zone">>],
      [BaseForm EXCEPT !.name = <<" ", "A">>, !.email = <<>>] }

\* the submissions of the validation runs
CheckedForms == {BaseForm} \cup FieldViolations

\* what an operator types into `flask test-sms`: ten digits bare and with
\* separators, eleven digits with and without the leading 1, too few and too
\* many digits, nothing
PhoneInputs ==
    { <<"(", "5", "5", "5", ")", " ", "1", "2", "3", "-", "4", "5", "6", "7">>,
      <<"5", "5", "5", "-", "1", "2", "3", "-", "4", "5", "6", "7">>,
      <<"5", "5", "5", "1", "2", "3", "4", "5", "6", "7">>,
      <<"1", "5", "5", "5", "1", "2", "3", "4", "5", "6", "7">>,
      <<"+", "1", "5", "5", "5", "1", "2", "3", "4", "5", "6", "7">>,
      <<"1", " ", "(", "5", "5", "5", ")", " ", "1", "2", "3", "-", "4", "5", "6", "7">>,
      <<"2", "5", "5", "5", "1", "2", "3", "4", "5", "6", "7">>,
      <<"+", "2", " ", "5", "5", "5", " ", "1", "2", "3", " ", "4", "5", "6", "7">>,
      <<"1", "2", "3">>,
      <<"5", "5", "5", "1", "2", "3", "4", "5", "6">>,
      <<"1", "2", "3", "4", "5", "6", "7", "8", "9", "0", "1", "2", "3", "4">>,
      <<>> }

\* the runs of the command
Commands == 1..MaxCommands

IPs == {"10.0.0.1"}

\* requests a client already made in the current rate-limit window
PriorHits == {0, SUBMIT_LIMIT - 1}

Reqs == 1..MaxReqs

\* the client addresses of the rate-limit runs
Clients == {"10.0.0.1", "10.0.0.2"}

\* the requests of one rate-limit window, numbered in the order they arrive
Submits == 1..MaxSubmits

\* the requests of the runs with several clients
Callers == 1..(MaxReqs + 1)

\* the submissions of the rate-limit runs: one that validates, one that does not
LimitForms == {BaseForm, [BaseForm EXCEPT !.name = <<>>]}

Sinks == {"ok", "transient", "permanent"}

\* ---------------------------------------------------------------- state
VARIABLES
    store,       \* the signups table: a sequence of rows, row i has id i
    cache,       \* the cache: a set of [key, expires] entries
    hits,        \* the limiter's counter of POST /signup per client address
    queue,       \* the task queue: send_sms_async jobs waiting for a worker
    runs,        \* per row id: the outcomes of the task runs for that id, in order
    configured,  \* the SMS service has account id, auth token and from-number
    now,         \* the clock, in seconds
    ticks,       \* how many times the clock advanced
    req,         \* the POST /signup requests: position in the handler and locals
    success_page,    \* the response to the latest GET /success/<id>
    views,           \* the limiter's counter of GET / per client address
    reply,           \* the response to the latest GET /, GET /health or GET /metrics
    metrics_enabled, \* app.config['METRICS_ENABLED']
    sink_calls,      \* how many times client.messages.create was called
    cli              \* the runs of the command `flask test-sms`: input and locals

\* what the read-only routes keep: the view counter, their response, their switch
read_state == <<views, reply, metrics_enabled>>

vars == <<store, cache, hits, queue, runs, configured, now, ticks, req, success_page,
          read_state, sink_calls, cli>>

NoPage == [status |-> 0, id |-> 0, name |-> <<>>, email |-> <<>>]

NoReply == [route |-> "none", ip |-> "none", status |-> 0, total |-> 0, today |-> 0]

\* A request: pc is its position in the handler ("idle" before it arrives,
\* "checked" after the duplicate check, "inserted" after the commit, "done"
\* after the response), form and ip what it carries, id the row it inserted
\* (0: none), status and page the response; fault names the call that raised
\* (if any), marked tells that it set its marker, enq counts the jobs it
\* enqueued: these three keep the history the properties speak about; errors
\* is the set of fields with an entry in form.errors of the rendered form.
IdleReq ==
    [pc |-> "idle", form |-> BaseForm, ip |-> "10.0.0.1", id |-> 0, status |-> 0,
     page |-> "none", fault |-> "none", marked |-> FALSE, enq |-> 0, errors |-> {}]

\* A run of `flask test-sms`: phone is the number typed in, to_number the
\* local of send_confirmation_sms after the cleaning (None: not reached, or
\* the cleaning raised), printed what the command ends with ("none": the
\* command was not started, "asked": the input is read, the call not yet made)
NoCommand == [phone |-> <<>>, to_number |-> None, printed |-> "none"]

\* the service right after deployment: empty table, cache and queue, no
\* response given yet; the SMS account may or may not be set in the environment
Deployed ==
    /\ store = <<>>
    /\ cache = {}
    /\ queue = {}
    /\ runs = <<>>
    /\ configured \in BOOLEAN
    /\ now = 0
    /\ ticks = 0
    /\ success_page = NoPage
    /\ reply = NoReply
    /\ sink_calls = 0

\* no test command is running
NoCommands == cli = [c \in Commands |-> NoCommand]

Init ==
    /\ Deployed
    /\ NoCommands
    /\ hits \in [IPs -> PriorHits]
    /\ views = [ip \in IPs |-> 0]
    /\ metrics_enabled = TRUE
    /\ req = [r \in Reqs |-> IdleReq]

\* ---------------------------------------------------------------- cache
\* cache_key = f"email_check:{form.email.data}"
cache_key(form) == <<"email_check:">> \o form.email

\* cache.get(key): an entry that has not expired
cache_get(key) == \E m \in cache : m.key = key /\ now < m.expires

\* the entry kept twice as long as the timeout asks
cache_set_TwiceAsLong(key, timeout) ==
    {m \in cache : m.key # key} \cup {[key |-> key, expires |-> now + timeout + timeout]}

\* cache.set(key, True, timeout)
cache_set(key, timeout) ==
    {m \in cache : m.key # key} \cup {[key |-> key, expires |-> now + timeout]}

\* ------------------------------------------------------------ POST /signup
\* the row with the email as it was typed
SignupRow_RawEmail(id, form, ip, t) ==
    [ id |-> id,
      name |-> Strip(form.name),
      email |-> form.email,
      phone |-> IF form.phone # <<>> THEN Some(Strip(form.phone)) ELSE None,
      zip_code |-> Strip(form.zip_code),
      events_interested |-> form.events_interested,
      ip_address |-> ip,
      user_agent |-> <<>>,
      source_url |-> None,
      sms_sent |-> FALSE,
      sms_sent_at |-> None,
      sms_delivery_status |-> None,
      created_at |-> t,
      updated_at |-> t ]

\* Signup(...) built from the validated form and the request, with the id the
\* table gives it and the time of the insert
SignupRow(id, form, ip, t) ==
    [ id |-> id,
      name |-> Strip(form.name),
      email |-> Lower(Strip(form.email)),
      phone |-> IF form.phone # <<>> THEN Some(Strip(form.phone)) ELSE None,
      zip_code |-> Strip(form.zip_code),
      events_interested |-> form.events_interested,
      ip_address |-> ip,
      user_agent |-> <<>>,
      source_url |-> None,
      sms_sent |-> FALSE,
      sms_sent_at |-> None,
      sms_delivery_status |-> None,
      created_at |-> t,
      updated_at |-> t ]

\* the row the handler inserts: the next id of the table, the current time
NewSignup(form, ip) == SignupRow(Len(store) + 1, form, ip, now)

\* a job for every phone that is not None, the empty string included
PhoneGiven_NotNone(row) == row.phone # None

\* if signup_data.phone: a phone that is neither None nor ''
PhoneGiven(row) == row.phone # None /\ TheValue(row.phone) # <<>>

\* the job send_sms_async.delay(signup_data.id, signup_data.phone, signup_data.name)
JobOf(row) == [signup_id |-> row.id, phone |-> TheValue(row.phone), name |-> row.name]

\* one request more than the limit admitted
LimiterAdmits_OffByOne(ip) == hits[ip] <= SUBMIT_LIMIT

\* one counter for all clients
LimiterAdmits_Shared(ip) == \A c \in DOMAIN hits : hits[c] < SUBMIT_LIMIT

\* the limiter admits a request while the window's counter is below the limit
LimiterAdmits(ip) == hits[ip] < SUBMIT_LIMIT

\* the response of a finished request
Respond(r, status, page) ==
    [req[r] EXCEPT !.pc = "done", !.status = status, !.page = page]

\* except Exception: log, db.session.rollback(), error page with 500
Fail(r, fault) ==
    [req[r] EXCEPT !.pc = "done", !.status = 500, !.page = "error", !.fault = fault]

\* the row inserted before the duplicate check, so that a duplicate is stored too
signup_validate_InsertFirst(r, form, ip) ==
    /\ req[r].pc = "idle"
    /\ LET me == [req[r] EXCEPT !.form = form, !.ip = ip]
           duplicate == LimiterAdmits(ip) /\ validate_on_submit(form)
                        /\ cache_get(cache_key(form))
       IN /\ IF ~LimiterAdmits(ip)
             THEN /\ req' = [req EXCEPT ![r] =
                               [me EXCEPT !.pc = "done", !.status = 429, !.page = "rate_limit"]]
                  /\ UNCHANGED hits
             ELSE /\ hits' = [hits EXCEPT ![ip] = @ + 1]
                  /\ req' = [req EXCEPT ![r] =
                       IF ~validate_on_submit(form)
                       THEN [me EXCEPT !.pc = "done", !.status = 200, !.page = "form_errors"]
                       ELSE IF cache_get(cache_key(form))
                       THEN [me EXCEPT !.pc = "done", !.status = 200, !.page = "duplicate"]
                       ELSE [me EXCEPT !.pc = "checked"]]
          /\ store' = IF duplicate THEN Append(store, NewSignup(form, ip)) ELSE store
          /\ runs' = IF duplicate THEN Append(runs, <<>>) ELSE runs
    /\ UNCHANGED <<cache, queue, configured, now, ticks, success_page, read_state, sink_calls, cli>>

\* the marker set by the duplicate check itself, before any row is inserted
signup_validate_MarkAtCheck(r, form, ip) ==
    /\ req[r].pc = "idle"
    /\ LET me == [req[r] EXCEPT !.form = form, !.ip = ip]
           fresh == LimiterAdmits(ip) /\ validate_on_submit(form)
                    /\ ~cache_get(cache_key(form))
       IN /\ cache' = IF fresh THEN cache_set(cache_key(form), MARKER_TTL) ELSE cache
          /\ IF ~LimiterAdmits(ip)
             THEN /\ req' = [req EXCEPT ![r] =
                               [me EXCEPT !.pc = "done", !.status = 429, !.page = "rate_limit"]]
                  /\ UNCHANGED hits
             ELSE /\ hits' = [hits EXCEPT ![ip] = @ + 1]
                  /\ req' = [req EXCEPT ![r] =
                       IF ~validate_on_submit(form)
                       THEN [me EXCEPT !.pc = "done", !.status = 200, !.page = "form_errors",
                                       !.errors = form_errors(form)]
                       ELSE IF cache_get(cache_key(form))
                       THEN [me EXCEPT !.pc = "done", !.status = 200, !.page = "duplicate"]
                       ELSE [me EXCEPT !.pc = "checked"]]
    /\ UNCHANGED <<store, queue, runs, configured, now, ticks, success_page, read_state, sink_calls, cli>>


\* the limiter, form.validate_on_submit() and the duplicate check cache.get(cache_key)
signup_validate(r, form, ip) ==
    /\ req[r].pc = "idle"
    /\ LET me == [req[r] EXCEPT !.form = form, !.ip = ip]
       IN IF ~LimiterAdmits(ip)
          THEN /\ req' = [req EXCEPT ![r] =
                            [me EXCEPT !.pc = "done", !.status = 429, !.page = "rate_limit"]]
               /\ UNCHANGED hits
          ELSE /\ hits' = [hits EXCEPT ![ip] = @ + 1]
               /\ req' = [req EXCEPT ![r] =
                    IF ~validate_on_submit(form)
                    THEN [me EXCEPT !.pc = "done", !.status = 200, !.page = "form_errors",
                                    !.errors = form_errors(form)]
                    ELSE IF cache_get(cache_key(form))
                    THEN [me EXCEPT !.pc = "done", !.status = 200, !.page = "duplicate"]
                    ELSE [me EXCEPT !.pc = "checked"]]
    /\ UNCHANGED <<store, cache, queue, runs, configured, now, ticks, success_page, read_state, sink_calls, cli>>

\* the marker written before the commit and left behind when the commit fails
signup_insert_MarkerFirst(r, ok) ==
    /\ req[r].pc = "checked"
    /\ cache' = cache_set(cache_key(req[r].form), MARKER_TTL)
    /\ IF ok
       THEN LET row == NewSignup(req[r].form, req[r].ip)
            IN /\ store' = Append(store, row)
               /\ runs' = Append(runs, <<>>)
               /\ req' = [req EXCEPT ![r] = [@ EXCEPT !.pc = "inserted", !.id = row.id]]
       ELSE /\ req' = [req EXCEPT ![r] = Fail(r, "insert")]
            /\ UNCHANGED <<store, runs>>
    /\ UNCHANGED <<hits, queue, configured, now, ticks, success_page, read_state, sink_calls, cli>>

\* the insert as delete-then-insert: the rows that carry the new row's email
\* are dropped from the table
signup_insert_Replace(r, ok) ==
    /\ req[r].pc = "checked"
    /\ IF ok
       THEN LET row == NewSignup(req[r].form, req[r].ip)
                Other(old) == old.email # row.email
            IN /\ store' = Append(SelectSeq(store, Other), row)
               /\ runs' = Append(runs, <<>>)
               /\ req' = [req EXCEPT ![r] = [@ EXCEPT !.pc = "inserted", !.id = row.id]]
       ELSE /\ req' = [req EXCEPT ![r] = Fail(r, "insert")]
            /\ UNCHANGED <<store, runs>>
    /\ UNCHANGED <<cache, hits, queue, configured, now, ticks, success_page, read_state,
                   sink_calls, cli>>

\* the job enqueued before the commit, with the id the row is about to get
signup_insert_EnqueueFirst(r, ok) ==
    /\ req[r].pc = "checked"
    /\ LET row == NewSignup(req[r].form, req[r].ip)
       IN /\ queue' = IF PhoneGiven(row) THEN queue \cup {JobOf(row)} ELSE queue
          /\ IF ok
             THEN /\ store' = Append(store, row)
                  /\ runs' = Append(runs, <<>>)
                  /\ req' = [req EXCEPT ![r] = [@ EXCEPT !.pc = "inserted", !.id = row.id]]
             ELSE /\ req' = [req EXCEPT ![r] = Fail(r, "insert")]
                  /\ UNCHANGED <<store, runs>>
    /\ UNCHANGED <<cache, hits, configured, now, ticks, success_page, read_state, sink_calls, cli>>


\* db.session.add(signup_data); db.session.commit()  (ok = the commit succeeds)
signup_insert(r, ok) ==
    /\ req[r].pc = "checked"
    /\ IF ok
       THEN LET row == NewSignup(req[r].form, req[r].ip)
            IN /\ store' = Append(store, row)
               /\ runs' = Append(runs, <<>>)
               /\ req' = [req EXCEPT ![r] = [@ EXCEPT !.pc = "inserted", !.id = row.id]]
       ELSE /\ req' = [req EXCEPT ![r] = Fail(r, "insert")]
            /\ UNCHANGED <<store, runs>>
    /\ UNCHANGED <<cache, hits, queue, configured, now, ticks, success_page, read_state, sink_calls, cli>>

\* cache.set(cache_key, True, timeout=3600); if signup_data.phone:
\* send_sms_async.delay(...); redirect to /success/<id>
\* (set_ok = the cache accepts the write, delay_ok = the broker accepts the job)
signup_finish(r, set_ok, delay_ok) ==
    /\ req[r].pc = "inserted"
    /\ LET row == store[req[r].id]
       IN IF ~set_ok
          THEN /\ delay_ok
               /\ req' = [req EXCEPT ![r] = Fail(r, "cache_set")]
               /\ UNCHANGED <<cache, queue>>
          ELSE /\ cache' = cache_set(cache_key(req[r].form), MARKER_TTL)
               /\ IF PhoneGiven(row)
                  THEN IF delay_ok
                       THEN /\ queue' = queue \cup {JobOf(row)}
                            /\ req' = [req EXCEPT ![r] =
                                  [Respond(r, 302, "success") EXCEPT !.marked = TRUE, !.enq = 1]]
                       ELSE /\ req' = [req EXCEPT ![r] =
                                  [Fail(r, "enqueue") EXCEPT !.marked = TRUE]]
                            /\ UNCHANGED queue
                  ELSE /\ delay_ok
                       /\ req' = [req EXCEPT ![r] =
                                  [Respond(r, 302, "success") EXCEPT !.marked = TRUE]]
                       /\ UNCHANGED queue
    /\ UNCHANGED <<store, hits, runs, configured, now, ticks, success_page, read_state, sink_calls, cli>>

\* ---------------------------------------------------------- SMS service
\* the cleaning that takes any eleven digits, whatever the first
clean_phone_number_AnyEleven(phone) ==
    IF phone = <<>> THEN None
    ELSE LET digits_only == DigitsOnly(phone)
         IN IF Len(digits_only) = 10 THEN Some(<<"+", "1">> \o digits_only)
            ELSE IF Len(digits_only) = 11 THEN Some(<<"+">> \o digits_only)
            ELSE None

\* the cleaning that counts the characters typed instead of the digits kept
clean_phone_number_RawLength(phone) ==
    IF phone = <<>> THEN None
    ELSE LET digits_only == DigitsOnly(phone)
         IN IF Len(phone) = 10 THEN Some(<<"+", "1">> \o digits_only)
            ELSE IF Len(phone) = 11 /\ Head(digits_only) = "1"
                 THEN Some(<<"+">> \o digits_only)
            ELSE None

\* the cleaning that puts the country code before eleven digits too
clean_phone_number_DoublePrefix(phone) ==
    IF phone = <<>> THEN None
    ELSE LET digits_only == DigitsOnly(phone)
         IN IF Len(digits_only) = 10 \/ (Len(digits_only) = 11 /\ Head(digits_only) = "1")
            THEN Some(<<"+", "1">> \o digits_only)
            ELSE None

\* SMSService.clean_phone_number: None stands for the ValueError
clean_phone_number(phone) ==
    IF phone = <<>> THEN None
    ELSE LET digits_only == DigitsOnly(phone)
         IN IF Len(digits_only) = 10 THEN Some(<<"+", "1">> \o digits_only)
            ELSE IF Len(digits_only) = 11 /\ Head(digits_only) = "1"
                 THEN Some(<<"+">> \o digits_only)
            ELSE None

\* the call that cleans the number before it looks for the client
send_confirmation_sms_CleanFirst(to_number, name, sink) ==
    IF clean_phone_number(to_number) = None THEN "invalid_phone"
    ELSE IF ~configured THEN "not_configured"
    ELSE IF sink = "ok" THEN "sent"
    ELSE sink

\* SMSService.send_confirmation_sms: what the call ends with, given what the
\* sink (client.messages.create) would answer
send_confirmation_sms(to_number, name, sink) ==
    IF ~configured THEN "not_configured"
    ELSE IF clean_phone_number(to_number) = None THEN "invalid_phone"
    ELSE IF sink = "ok" THEN "sent"
    ELSE sink

\* the sink is called although the number could not be cleaned
SinkInvoked_BeforeClean(to_number) == configured

\* send_confirmation_sms reaches self.client.messages.create: the client is
\* set and clean_phone_number did not raise
SinkInvoked(to_number) == configured /\ clean_phone_number(to_number) # None

\* the command test_sms after its two input() calls: the call of
\* send_confirmation_sms and the line it prints
test_sms(c, sink) ==
    /\ cli[c].printed = "asked"
    /\ cli' = [cli EXCEPT ![c] =
                  [phone |-> @.phone,
                   to_number |-> IF configured THEN clean_phone_number(@.phone) ELSE None,
                   printed |-> send_confirmation_sms(@.phone, N_ok, sink)]]
    /\ sink_calls' = IF SinkInvoked(cli[c].phone) THEN sink_calls + 1 ELSE sink_calls
    /\ UNCHANGED <<store, cache, hits, queue, runs, configured, now, ticks, req,
                   success_page, read_state>>

\* ------------------------------------------------------------ the worker
\* Signup.query.get(signup_id)
query_get(signup_id) == IF signup_id \in DOMAIN store THEN Some(store[signup_id]) ELSE None

\* the row marked sent without its time stamp
MarkSent_NoTimestamp(row) ==
    [row EXCEPT !.sms_sent = TRUE, !.sms_delivery_status = Some("sent"), !.updated_at = now]

\* the row marked with a status of the sink instead of 'sent'
MarkSent_Delivered(row) ==
    [row EXCEPT !.sms_sent = TRUE, !.sms_sent_at = Some(now),
                !.sms_delivery_status = Some("delivered"), !.updated_at = now]

\* the try block after a successful send: mark the row sent
MarkSent(row) ==
    [row EXCEPT !.sms_sent = TRUE, !.sms_sent_at = Some(now),
                !.sms_delivery_status = Some("sent"), !.updated_at = now]

\* the row marked failed with its unusable phone wiped
MarkFailed_WipesPhone(row) ==
    [row EXCEPT !.sms_delivery_status = Some("failed"), !.phone = None, !.updated_at = now]

\* the except block: mark the row failed
MarkFailed(row) ==
    [row EXCEPT !.sms_delivery_status = Some("failed"), !.updated_at = now]

\* the run that writes the status and nothing else
TaskUpdate_StatusOnly(row, outcome) ==
    [row EXCEPT !.sms_delivery_status = Some(IF outcome = "sent" THEN "sent" ELSE "failed"),
                !.updated_at = now]

\* the row as one run of the task leaves it
TaskUpdate(row, outcome) == IF outcome = "sent" THEN MarkSent(row) ELSE MarkFailed(row)

\* the broker drops a job once its delivery is acknowledged; a delivery whose
\* acknowledgement is lost (again) stays queued and is handed out once more
Acknowledge(j, again) ==
    IF again /\ Len(runs[j.signup_id]) + 1 < MaxDeliveries THEN queue ELSE queue \ {j}

\* one run of the task send_sms_async(signup_id, phone_number, name)
send_sms_async(j, sink, again) ==
    /\ j \in queue
    /\ LET outcome == send_confirmation_sms(j.phone, j.name, sink)
           signup == query_get(j.signup_id)
       IN /\ store' = IF signup # None
                      THEN [store EXCEPT ![j.signup_id] = TaskUpdate(TheValue(signup), outcome)]
                      ELSE store
          /\ runs' = [runs EXCEPT ![j.signup_id] = Append(@, outcome)]
    /\ sink_calls' = IF SinkInvoked(j.phone) THEN sink_calls + 1 ELSE sink_calls
    /\ queue' = Acknowledge(j, again)
    /\ UNCHANGED <<cache, hits, configured, now, ticks, req, success_page, read_state,
                   cli>>

\* the worker process is stopped while it runs the task for j (sent = the stop
\* comes after the call of the sink, before the commit): nothing is committed.
\* task_acks_late is not set, so the message was acknowledged when the task
\* started and the stop itself puts nothing back; the job is handed out again
\* only when that acknowledgement was lost, as for any other run.
send_sms_async_stopped(j, sent, again) ==
    /\ j \in queue
    /\ sent => SinkInvoked(j.phone)
    /\ runs' = [runs EXCEPT ![j.signup_id] = Append(@, "stopped")]
    /\ sink_calls' = IF sent THEN sink_calls + 1 ELSE sink_calls
    /\ queue' = Acknowledge(j, again)
    /\ UNCHANGED <<store, cache, hits, configured, now, ticks, req, success_page,
                   read_state, cli>>

\* ------------------------------------------------------- GET /success/<id>
\* Signup.query.get_or_404(signup_id) inside try / except Exception: the NotFound
\* that get_or_404 raises is an Exception, so the except block answers it with
\* the error page and 500
SuccessResponse(signup_id) ==
    LET signup == query_get(signup_id)
    IN IF signup # None
       THEN [status |-> 200, id |-> signup_id, name |-> TheValue(signup).name,
             email |-> TheValue(signup).email]
       ELSE [status |-> 500, id |-> signup_id, name |-> <<>>, email |-> <<>>]

\* the limiter's answer for a request it does not admit
TooManyRequests == [status |-> 429, id |-> 0, name |-> <<>>, email |-> <<>>]

\* GET /success/<signup_id>  (admitted = the "10 per minute" limit is not used up)
success(signup_id, admitted) ==
    /\ success_page' = IF admitted THEN SuccessResponse(signup_id) ELSE TooManyRequests
    /\ success_page' # success_page
    /\ UNCHANGED <<store, cache, hits, queue, runs, configured, now, ticks, req,
                   read_state, sink_calls, cli>>

\* ------------------------------------------------------------------ GET /
\* the key of the cached form page
form_config == <<"form_config">>

\* the cache emptied before the page is stored
index_ClearsCache(ip) ==
    /\ IF views[ip] >= VIEW_LIMIT
       THEN /\ reply' = [NoReply EXCEPT !.route = "index", !.ip = ip, !.status = 429]
            /\ UNCHANGED <<views, cache>>
       ELSE /\ views' = [views EXCEPT ![ip] = @ + 1]
            /\ cache' = IF cache_get(form_config) THEN cache
                        ELSE {[key |-> form_config, expires |-> now + FORM_TTL]}
            /\ reply' = [NoReply EXCEPT !.route = "index", !.ip = ip, !.status = 200]
    /\ UNCHANGED <<store, hits, queue, runs, configured, now, ticks, req, success_page,
                   metrics_enabled, sink_calls, cli>>

\* the cached page looked up before the limiter: a cached view is served
\* without being counted, whatever the counter says
index_CacheFirst(ip) ==
    /\ IF cache_get(form_config)
       THEN /\ reply' = [NoReply EXCEPT !.route = "index", !.ip = ip, !.status = 200]
            /\ UNCHANGED <<views, cache>>
       ELSE IF views[ip] >= VIEW_LIMIT
       THEN /\ reply' = [NoReply EXCEPT !.route = "index", !.ip = ip, !.status = 429]
            /\ UNCHANGED <<views, cache>>
       ELSE /\ views' = [views EXCEPT ![ip] = @ + 1]
            /\ cache' = cache_set(form_config, FORM_TTL)
            /\ reply' = [NoReply EXCEPT !.route = "index", !.ip = ip, !.status = 200]
    /\ UNCHANGED <<store, hits, queue, runs, configured, now, ticks, req, success_page,
                   metrics_enabled, sink_calls, cli>>

\* the response of GET / and what it leaves in the limiter and the cache: the
\* limiter runs first, then cache.cached serves the page or calls index() and
\* stores what it rendered
index(ip) ==
    /\ IF views[ip] >= VIEW_LIMIT
       THEN /\ reply' = [NoReply EXCEPT !.route = "index", !.ip = ip, !.status = 429]
            /\ UNCHANGED <<views, cache>>
       ELSE /\ views' = [views EXCEPT ![ip] = @ + 1]
            /\ cache' = IF cache_get(form_config) THEN cache
                        ELSE cache_set(form_config, FORM_TTL)
            /\ reply' = [NoReply EXCEPT !.route = "index", !.ip = ip, !.status = 200]
    /\ UNCHANGED <<store, hits, queue, runs, configured, now, ticks, req, success_page,
                   metrics_enabled, sink_calls, cli>>

\* ------------------------------------------------- GET /health, GET /metrics
\* the answer of the default limits ("200 per day", "50 per hour") once used up
LimitExceeded(route) == [NoReply EXCEPT !.route = route, !.status = 429]

\* GET /health  (admitted = the default limits are not used up, db_ok = the
\* probe SELECT 1 succeeds)
health(admitted, db_ok) ==
    /\ reply' = IF ~admitted THEN LimitExceeded("health")
                ELSE [NoReply EXCEPT !.route = "health",
                                     !.status = IF db_ok THEN 200 ELSE 503]
    /\ reply' # reply
    /\ UNCHANGED <<store, cache, hits, queue, runs, configured, now, ticks, req,
                   success_page, views, metrics_enabled, sink_calls, cli>>

\* the last twenty-four hours instead of the current day
StartOfDay_LastDay == now - DAY

\* midnight (UTC) of the current day
StartOfDay == now - (now % DAY)

\* GET /metrics  (admitted = the default limits are not used up, db_ok = the
\* two counting queries succeed)
metrics(admitted, db_ok) ==
    /\ reply' =
          IF ~admitted THEN LimitExceeded("metrics")
          ELSE IF ~metrics_enabled THEN [NoReply EXCEPT !.route = "metrics", !.status = 404]
          ELSE IF ~db_ok THEN [NoReply EXCEPT !.route = "metrics", !.status = 500]
          ELSE [NoReply EXCEPT
                  !.route = "metrics", !.status = 200,
                  !.total = Len(store),
                  !.today = Cardinality({id \in DOMAIN store :
                                            store[id].created_at >= StartOfDay})]
    /\ reply' # reply
    /\ UNCHANGED <<store, cache, hits, queue, runs, configured, now, ticks, req,
                   success_page, views, metrics_enabled, sink_calls, cli>>

\* ------------------------------------------------------------- the clock
\* the steps of the clock: the time to live of a marker
TickSteps == {MARKER_TTL}

\* time passes: the limiter's window ends and expired cache entries vanish
Tick(d) ==
    /\ ticks < MaxTicks
    /\ ticks' = ticks + 1
    /\ now' = now + d
    /\ hits' = [ip \in DOMAIN hits |-> IF d >= LIMIT_WINDOW THEN 0 ELSE hits[ip]]
    /\ views' = [ip \in DOMAIN views |-> IF d >= LIMIT_WINDOW THEN 0 ELSE views[ip]]
    /\ cache' = {m \in cache : now + d < m.expires}
    /\ UNCHANGED <<store, queue, runs, configured, req, success_page, reply,
                   metrics_enabled, sink_calls, cli>>

\* the steps of POST /signup after the checks, for the requests of R
Progress(R) ==
    \/ \E r \in R, ok \in BOOLEAN : signup_insert(r, ok)
    \/ \E r \in R, set_ok \in BOOLEAN, delay_ok \in BOOLEAN :
            signup_finish(r, set_ok, delay_ok)

\* POST /signup for the requests of R, the worker and the clock
Pipeline(R) ==
    \/ \E r \in R, form \in Forms, ip \in IPs : signup_validate(r, form, ip)
    \/ Progress(R)
    \/ \E j \in queue, sink \in Sinks, again \in BOOLEAN : send_sms_async(j, sink, again)
    \/ \E d \in TickSteps : Tick(d)

\* concurrent signups, the worker and the clock
Next == Pipeline(Reqs)

Spec == Init /\ [][Next]_vars

\* one signup at a time, the worker, the clock and the success page
NextPages ==
    \/ Pipeline({1})
    \/ \E signup_id \in 1..(Len(store) + 1), admitted \in BOOLEAN :
            success(signup_id, admitted)

SpecPages == Init /\ [][NextPages]_vars

\* the service with the metrics switched on or off, a client one view short
\* of the limit on GET /
InitReads ==
    /\ Deployed
    /\ NoCommands
    /\ hits \in [IPs -> PriorHits]
    /\ views = [ip \in IPs |-> VIEW_LIMIT - 1]
    /\ metrics_enabled \in BOOLEAN
    /\ req = [r \in Reqs |-> IdleReq]

\* one signup, the worker and the four read-only routes within one window
NextReads ==
    \/ \E form \in Forms, ip \in IPs : signup_validate(1, form, ip)
    \/ Progress({1})
    \/ \E j \in queue, sink \in Sinks, again \in BOOLEAN : send_sms_async(j, sink, again)
    \/ \E signup_id \in 1..(Len(store) + 1), admitted \in BOOLEAN :
            success(signup_id, admitted)
    \/ \E ip \in IPs : index(ip)
    \/ \E admitted \in BOOLEAN, db_ok \in BOOLEAN : health(admitted, db_ok)
    \/ \E admitted \in BOOLEAN, db_ok \in BOOLEAN : metrics(admitted, db_ok)

SpecReads == InitReads /\ [][NextReads]_vars

\* the steps of the clock of the counting runs: within a day, and a day
DaySteps == {MARKER_TTL, DAY}

InitMetrics ==
    /\ Deployed
    /\ NoCommands
    /\ hits = [ip \in IPs |-> 0]
    /\ views = [ip \in IPs |-> 0]
    /\ metrics_enabled \in BOOLEAN
    /\ req = [r \in Reqs |-> IdleReq]

\* signups before and after the clock moves, and GET /metrics at any moment
NextMetrics ==
    \/ \E r \in Reqs, ip \in IPs : signup_validate(r, BaseForm, ip)
    \/ Progress(Reqs)
    \/ \E d \in DaySteps : Tick(d)
    \/ \E admitted \in BOOLEAN, db_ok \in BOOLEAN : metrics(admitted, db_ok)

SpecMetrics == InitMetrics /\ [][NextMetrics]_vars

\* concurrent signups with submissions that break several rules at once
NextErrors ==
    \/ \E r \in Reqs, form \in {BaseForm} \cup SeveralViolations, ip \in IPs :
            signup_validate(r, form, ip)
    \/ Progress(Reqs)

SpecErrors == Init /\ [][NextErrors]_vars

\* the phone cleaning applied to numbers typed into the test command: two
\* operators have started `flask test-sms` and typed a number each
InitPhones ==
    /\ Deployed
    /\ cli \in [Commands -> {[phone |-> p, to_number |-> None, printed |-> "asked"] :
                                p \in PhoneInputs}]
    /\ hits = [ip \in IPs |-> 0]
    /\ views = [ip \in IPs |-> 0]
    /\ metrics_enabled = TRUE
    /\ req = [r \in Reqs |-> IdleReq]

NextPhones == \E c \in Commands, sink \in Sinks : test_sms(c, sink)

SpecPhones == InitPhones /\ [][NextPhones]_vars

\* one signup, the clock, and a worker that can be stopped in the middle of a job
NextCancel ==
    \/ Pipeline({1})
    \/ \E j \in queue, sent \in BOOLEAN, again \in BOOLEAN :
            send_sms_async_stopped(j, sent, again)

SpecCancel == Init /\ [][NextCancel]_vars

\* concurrent signups with submissions that break a field rule (the handler
\* alone: no worker, no clock)
NextForms ==
    \/ \E r \in Reqs, form \in CheckedForms, ip \in IPs : signup_validate(r, form, ip)
    \/ Progress(Reqs)

SpecForms == Init /\ [][NextForms]_vars

\* the worker alone: the table holds the row of one signup, made at time 0 with
\* a phone that can or cannot be cleaned, and the queue holds its job and a job
\* whose row is gone from the table (id 2: removed by hand after the enqueue)
InitWorker ==
    /\ \E phone \in {P_ok, P_bad} :
          LET row == SignupRow(1, [BaseForm EXCEPT !.phone = phone], "10.0.0.1", 0)
          IN /\ store = <<row>>
             /\ queue = {JobOf(row), [signup_id |-> 2, phone |-> P_ok, name |-> N_ok]}
    /\ runs = <<<<>>, <<>>>>
    /\ cache = {}
    /\ configured \in BOOLEAN
    /\ now = 0
    /\ ticks = 0
    /\ success_page = NoPage
    /\ reply = NoReply
    /\ sink_calls = 0
    /\ NoCommands
    /\ hits = [ip \in IPs |-> 0]
    /\ views = [ip \in IPs |-> 0]
    /\ metrics_enabled = TRUE
    /\ req = [r \in Reqs |-> IdleReq]

NextWorker ==
    \/ \E j \in queue, sink \in Sinks, again \in BOOLEAN : send_sms_async(j, sink, again)
    \/ \E d \in TickSteps : Tick(d)

SpecWorker == InitWorker /\ [][NextWorker]_vars

\* one rate-limit window of one client: no request made yet
InitLimits ==
    /\ Deployed
    /\ NoCommands
    /\ hits = [ip \in IPs |-> 0]
    /\ views = [ip \in IPs |-> 0]
    /\ metrics_enabled = TRUE
    /\ req = [r \in Submits |-> IdleReq]

\* the submissions of one client within one window, one after the other
NextLimits ==
    \/ \E r \in Submits, form \in LimitForms, ip \in IPs :
            /\ \A q \in 1..(r - 1) : req[q].pc = "done"
            /\ signup_validate(r, form, ip)
    \/ Progress(Submits)

SpecLimits == InitLimits /\ [][NextLimits]_vars

\* several clients in one window: each has made no submission or all but one
\* of those the limit allows, and is one view short of the limit on GET /
InitClients ==
    /\ Deployed
    /\ NoCommands
    /\ hits \in [Clients -> PriorHits]
    /\ views = [ip \in Clients |-> VIEW_LIMIT - 1]
    /\ metrics_enabled = TRUE
    /\ req = [r \in Callers |-> IdleReq]

\* POST /signup and GET / from several clients within one window
NextClients ==
    \/ \E r \in Callers, form \in LimitForms, ip \in Clients :
            /\ \A q \in 1..(r - 1) : req[q].pc = "done"
            /\ signup_validate(r, form, ip)
    \/ Progress(Callers)
    \/ \E ip \in Clients : index(ip)

SpecClients == InitClients /\ [][NextClients]_vars

\* =================================================================
\* The properties
\* =================================================================
\* the dedupe key the data model names: the trimmed, lower-cased email
NormEmail(email) == Lower(Strip(email))

\* a request that ran to its response
Done(r) == req[r].pc = "done"

\* the phone of the form is present: something is left of it after strip()
PhonePresent(form) == Strip(form.phone) # <<>>

\* the notification state of a row
NotifState(row) == <<row.sms_sent, row.sms_delivery_status>>

\* the row as the insert left it
AsInserted(row) ==
    [row EXCEPT !.sms_sent = FALSE, !.sms_sent_at = None, !.sms_delivery_status = None,
                !.updated_at = row.created_at]

Outcomes == {"sent", "transient", "permanent", "invalid_phone", "not_configured"}

\* the notification states one run of the task can leave a fresh row in
OnceStates(row) == {NotifState(TaskUpdate(AsInserted(row), o)) : o \in Outcomes}

\* C1: of the requests that carry the same email and are handled concurrently
\* (within the life of one marker), at most one is redirected to the success
\* page and at most one row is stored for them.
C1_OneSuccessPerEmail ==
    \A r1, r2 \in Reqs :
        ( /\ r1 # r2
          /\ req[r1].form.email = req[r2].form.email
          /\ req[r1].status = 302
          /\ req[r2].status = 302 )
        => store[req[r1].id].created_at # store[req[r2].id].created_at

\* C2: a valid, admitted submission whose normalized email equals that of an
\* earlier successful submission, whose marker has not expired, is answered
\* with the 'already registered' notice (and so stores no second row).
C2_NormalizedEmailIsKey ==
    [][ \A r, q \in Reqs :
          ( /\ req[r].pc = "idle"
            /\ req'[r].pc # "idle"
            /\ req'[r].status # 429
            /\ validate_on_submit(req'[r].form)
            /\ req[q].status = 302
            /\ cache_get(cache_key(req[q].form))
            /\ NormEmail(req'[r].form.email) = NormEmail(req[q].form.email) )
          => req'[r].page = "duplicate" ]_vars

\* C3: a finished request with a valid form that was admitted by the limiter,
\* was not a duplicate and met no storage, cache or broker failure, was
\* redirected, added exactly one row built from its form, and enqueued exactly
\* one job {id, phone, name} of that row if the phone is present and none if not;
\* rows are only added by such inserts, one per request.
C3_OneRecordOneJob ==
    /\ Len(store) = Cardinality({r \in Reqs : req[r].id # 0})
    /\ \A r \in Reqs :
        ( /\ Done(r)
          /\ validate_on_submit(req[r].form)
          /\ req[r].status # 429
          /\ req[r].page # "duplicate"
          /\ req[r].fault = "none" )
        => /\ req[r].status = 302
           /\ req[r].id \in DOMAIN store
           /\ \A q \in Reqs \ {r} : req[q].id # req[r].id
           /\ LET row == store[req[r].id]
              IN /\ row.name = Strip(req[r].form.name)
                 /\ row.email = NormEmail(req[r].form.email)
                 /\ IF PhonePresent(req[r].form)
                    THEN /\ req[r].enq = 1
                         /\ row.phone = Some(Strip(req[r].form.phone))
                         /\ \/ JobOf(row) \in queue
                            \/ runs[row.id] # <<>>
                    ELSE /\ req[r].enq = 0
                         /\ runs[row.id] = <<>>
                         /\ \A j \in queue : j.signup_id # row.id

\* C3 witness: one request was redirected with a job enqueued, another with none
C3_Witness ==
    \E r, q \in Reqs :
        /\ req[r].status = 302 /\ req[r].enq = 1 /\ PhonePresent(req[r].form)
        /\ req[q].status = 302 /\ req[q].enq = 0 /\ req[q].form.phone = P_blank

\* C4: a request whose enqueue failed after its row was inserted is answered
\* with the redirect to the success page, and its row stays stored.
C4_EnqueueFailureStillSucceeds ==
    \A r \in Reqs :
        req[r].fault = "enqueue"
        => /\ req[r].status = 302
           /\ req[r].id \in DOMAIN store

\* C5: after the task ran twice for a row, the row's notification state
\* (sms_sent, sms_delivery_status) is one that a single run leaves.
C5_TwiceSameAsOnce ==
    \A id \in DOMAIN store :
        Len(runs[id]) >= 2 => NotifState(store[id]) \in OnceStates(store[id])

\* C6: GET /success/<id> answers an admitted request for an id that no row has
\* with 404, and for an id that a row has with 200 and the row's name and email.
C6_SuccessPage ==
    [][ (success_page' # success_page /\ success_page'.status # 429)
        => IF success_page'.id \in DOMAIN store
           THEN /\ success_page'.status = 200
                /\ success_page'.name = store[success_page'.id].name
                /\ success_page'.email = store[success_page'.id].email
           ELSE success_page'.status = 404 ]_vars

\* C7: when the latest run of a job ended with a transient failure of the sink
\* and the deliveries are not used up, the job is back in the queue and the
\* row's sms_delivery_status is not 'failed'.
C7_TransientIsRetried ==
    \A id \in DOMAIN store :
        ( /\ runs[id] # <<>>
          /\ runs[id][Len(runs[id])] = "transient"
          /\ Len(runs[id]) < MaxDeliveries )
        => /\ store[id].sms_delivery_status # Some("failed")
           /\ \E j \in queue : j.signup_id = id

\* C8: a row whose sms_delivery_status is 'failed' has sms_sent = false.
C8_FailedImpliesUnsent ==
    \A id \in DOMAIN store :
        store[id].sms_delivery_status = Some("failed") => store[id].sms_sent = FALSE

\* C9: every row with sms_sent = true has a non-null sms_sent_at.
C9_SentHasTimestamp ==
    \A id \in DOMAIN store :
        store[id].sms_sent = TRUE => store[id].sms_sent_at # None

\* C9 witness: the worker marked a row sent
C9_Witness ==
    \E id \in DOMAIN store : store[id].sms_sent = TRUE /\ "sent" \in Range(runs[id])

\* C10: a request whose insert failed is answered with 500, stored no row and
\* set no marker; a marker under its key exists only if another request, whose
\* own insert succeeded, set it.
C10_InsertFailureLeavesNothing ==
    \A r \in Reqs :
        req[r].fault = "insert"
        => /\ req[r].status = 500
           /\ req[r].id = 0
           /\ ~req[r].marked
           /\ Len(store) = Cardinality({q \in Reqs \ {r} : req[q].id # 0})
           /\ cache_get(cache_key(req[r].form))
              => \E q \in Reqs \ {r} :
                    /\ req[q].marked
                    /\ req[q].id \in DOMAIN store
                    /\ cache_key(req[q].form) = cache_key(req[r].form)

\* C10 witness: an insert failed, and the same submission, sent again, was accepted
C10_Witness ==
    \E r, q \in Reqs :
        /\ req[r].fault = "insert"
        /\ req[q].form = req[r].form
        /\ req[q].status = 302

\* C11: a POST /signup that is rejected as a duplicate writes nothing to the
\* store or the queue: the step that answers 'already registered' leaves the
\* rows and the jobs as they were, and that request never inserted a row, set a
\* marker or enqueued a job.
C11_DuplicateWritesNothing ==
    [][ \A r \in DOMAIN req :
          (req[r].page # "duplicate" /\ req'[r].page = "duplicate")
          => /\ store' = store
             /\ queue' = queue
             /\ req'[r].id = 0
             /\ req'[r].enq = 0
             /\ ~req'[r].marked ]_vars

\* C11 witness: a request was rejected as a duplicate of a stored row
C11_Witness ==
    \E r \in DOMAIN req, id \in DOMAIN store :
        /\ req[r].page = "duplicate"
        /\ store[id].email = NormEmail(req[r].form.email)

\* the field rules of the validator: each field is trimmed, then checked
RuleViolated(form, f) ==
    CASE f = "name" ->
            LET v == Strip(form.name)
            IN v = <<>> \/ Len(v) < NAME_MIN \/ Len(v) > NAME_MAX
      [] f = "email" ->
            LET v == Strip(form.email)
            IN v = <<>> \/ ~ValidEmailSyntax(v) \/ Len(v) > EMAIL_MAX
      [] f = "phone" ->
            LET v == Strip(form.phone)
            IN v # <<>> /\ Len(v) > PHONE_MAX
      [] f = "zip_code" ->
            LET v == Strip(form.zip_code)
            IN v = <<>> \/ Len(v) < ZIP_MIN \/ Len(v) > ZIP_MAX
      [] f = "events_interested" ->
            \/ form.events_interested = <<>>
            \/ \E e \in Range(form.events_interested) : e \notin Range(get_event_options)

\* C12: an admitted POST /signup whose input violates a rule of a field is
\* answered with the form again (200) and a failure reported for that field,
\* and inserts no row, sets no marker and enqueues no job.
C12_InvalidFieldRejected ==
    \A r \in DOMAIN req, f \in FormFields :
        ( /\ req[r].pc # "idle"
          /\ req[r].status # 429
          /\ RuleViolated(req[r].form, f) )
        => /\ req[r].status = 200
           /\ req[r].page = "form_errors"
           /\ FormErrors(req[r].form)[f] # {}
           /\ req[r].id = 0
           /\ ~req[r].marked
           /\ req[r].enq = 0

\* the dedupe markers among the entries of a cache
Markers(c) == {m \in c : Head(m.key) = "email_check:"}

\* C13: a marker lives for the 1-hour TTL from the moment it is set, and an
\* admitted valid submission that finds no unexpired marker for its email is
\* accepted as a new signup, whether or not the store already holds a row with
\* that email: the store enforces no uniqueness.
C13_AcceptedAfterExpiry ==
    [][ /\ \A m \in Markers(cache') \ Markers(cache) : m.expires = now + MARKER_TTL
        /\ \A r \in DOMAIN req :
              ( /\ req[r].pc = "idle"
                /\ req'[r].pc # "idle"
                /\ req'[r].status # 429
                /\ validate_on_submit(req'[r].form)
                /\ \A m \in Markers(cache) :
                        m.key = cache_key(req'[r].form) => m.expires <= now )
              => req'[r].pc = "checked" ]_vars

\* C13 witness: two rows with one email, the second accepted an hour or more
\* after the first, both requests redirected to the success page
C13_Witness ==
    \E r, q \in DOMAIN req :
        /\ req[r].status = 302
        /\ req[q].status = 302
        /\ req[r].id # req[q].id
        /\ store[req[r].id].email = store[req[q].id].email
        /\ store[req[q].id].created_at >= store[req[r].id].created_at + MARKER_TTL

\* the requests that arrived before request r from the same client
EarlierFrom(r) == {q \in 1..(r - 1) : req[q].ip = req[r].ip}

\* C14: of the submissions of one client within one window, numbered as they
\* arrive, the first 5 are admitted (they are validated, and answered on their
\* merits) and the 6th and every later one is answered 429.
C14_FirstNAdmitted ==
    \A r \in DOMAIN req :
        req[r].pc # "idle"
        => /\ req[r].status = 429 <=> Cardinality(EarlierFrom(r)) >= SUBMIT_LIMIT
           /\ req[r].status = 429 => req[r].page = "rate_limit" /\ req[r].id = 0
           /\ (req[r].status # 429 /\ ~validate_on_submit(req[r].form))
              => req[r].page = "form_errors"
           /\ (req[r].status # 429 /\ validate_on_submit(req[r].form) /\ Done(r))
              => req[r].page \in {"success", "duplicate", "error"}

\* C14 witness: five submissions were admitted, one of them redirected, and the
\* sixth was answered 429
C14_Witness ==
    /\ \A r \in 1..SUBMIT_LIMIT : Done(r) /\ req[r].status # 429
    /\ \E r \in 1..SUBMIT_LIMIT : req[r].status = 302
    /\ req[SUBMIT_LIMIT + 1].status = 429

\* C15: the limiter counts per client and per endpoint. A submission is
\* answered 429 exactly when its own client has used up the 5 submissions of
\* the window, and it touches no other client's counter and no view counter; a
\* form view is answered 429 exactly when its own client has used up the 20
\* views, and it touches no other client's counter and no submit counter.
C15_PerClientPerEndpoint ==
    [][ /\ \A r \in DOMAIN req :
              (req[r].pc = "idle" /\ req'[r].pc # "idle")
              => /\ req'[r].status = 429 <=> hits[req'[r].ip] >= SUBMIT_LIMIT
                 /\ \A c \in DOMAIN hits \ {req'[r].ip} : hits'[c] = hits[c]
                 /\ views' = views
        /\ (reply'.route = "index" /\ (reply' # reply \/ views' # views))
              => /\ reply'.status = 429 <=> views[reply'.ip] >= VIEW_LIMIT
                 /\ \A c \in DOMAIN views \ {reply'.ip} : views'[c] = views[c]
                 /\ hits' = hits ]_vars

\* C15 witness: a client was answered 429 on POST /signup, another client's
\* later submission was admitted, and the first client's form view was served
C15_Witness ==
    \E r, q \in DOMAIN req :
        /\ r < q
        /\ req[r].status = 429
        /\ req[q].pc # "idle"
        /\ req[q].status # 429
        /\ req[q].ip # req[r].ip
        /\ reply = [NoReply EXCEPT !.route = "index", !.ip = req[r].ip, !.status = 200]

\* the last element of a non-empty sequence
Last(s) == s[Len(s)]

\* the ids for which the step ran the task once more
RanFor(id) == Len(runs'[id]) = Len(runs[id]) + 1

\* C16: a run of the task in which the sink accepted the message sets the
\* row's sms_sent = true, sms_sent_at = now and sms_delivery_status = 'sent' and
\* leaves every other row as it was; if no row has the job's id the run ends
\* all the same with the send's result and the table is unchanged.
C16_SentIsRecorded ==
    [][ \A id \in DOMAIN runs :
          (RanFor(id) /\ Last(runs'[id]) = "sent")
          => /\ Len(store') = Len(store)
             /\ \A k \in DOMAIN store \ {id} : store'[k] = store[k]
             /\ id \in DOMAIN store
                => /\ store'[id].sms_sent = TRUE
                   /\ store'[id].sms_sent_at = Some(now)
                   /\ store'[id].sms_delivery_status = Some("sent")
             /\ id \notin DOMAIN store => store' = store ]_vars

\* C16 witness: the message of the stored row and the message of the job
\* without a row were both accepted by the sink
C16_Witness ==
    /\ \E id \in DOMAIN store :
          runs[id] # <<>> /\ Last(runs[id]) = "sent" /\ store[id].sms_sent = TRUE
    /\ \E id \in DOMAIN runs \ DOMAIN store : "sent" \in Range(runs[id])

\* the outcomes the claim calls terminal: the phone cannot be cleaned, or the
\* sink refuses the message for good
Terminal == {"invalid_phone", "permanent"}

\* C17: a run of the task that ends with an invalid phone or a permanent
\* refusal of the sink sets the row's sms_delivery_status = 'failed' and leaves
\* sms_sent and sms_sent_at as they were; the worker puts no job into the queue
\* (a job enters the queue only for a row no run was made for), and the run with
\* the invalid phone does not call the sink.
C17_TerminalFailure ==
    [][ /\ \A j \in queue' \ queue :
              j.signup_id \notin DOMAIN runs \/ runs[j.signup_id] = <<>>
        /\ \A id \in DOMAIN runs :
              (RanFor(id) /\ Last(runs'[id]) \in Terminal)
              => /\ queue' \subseteq queue
                 /\ Last(runs'[id]) = "invalid_phone" => sink_calls' = sink_calls
                 /\ Last(runs'[id]) = "permanent" => sink_calls' = sink_calls + 1
                 /\ id \in DOMAIN store
                    => /\ store'[id].sms_delivery_status = Some("failed")
                       /\ store'[id].sms_sent = store[id].sms_sent
                       /\ store'[id].sms_sent_at = store[id].sms_sent_at ]_vars

\* C17 witness: one job failed on its phone without a call of the sink and is
\* gone from the queue, another was refused by the sink for good
C17_Witness ==
    \E id, k \in DOMAIN store :
        /\ runs[id] = <<"invalid_phone">>
        /\ runs[k] = <<"permanent">>
        /\ store[id].sms_delivery_status = Some("failed")
        /\ store[k].sms_delivery_status = Some("failed")
        /\ ~store[id].sms_sent /\ ~store[k].sms_sent
        /\ sink_calls = 1
        /\ queue = {}

\* the substantive and tracking fields of a row
Substance(row) ==
    [f \in {"id", "name", "email", "phone", "zip_code", "events_interested",
            "ip_address", "user_agent", "source_url", "created_at"} |-> row[f]]

\* C18: a run of the task adds no row, removes no row and leaves the
\* substantive and tracking fields of every row as they were; only sms_sent,
\* sms_sent_at, sms_delivery_status and updated_at can differ after it, and
\* only in the row of the job.
C18_WorkerTouchesNotificationOnly ==
    [][ \A id \in DOMAIN runs :
          RanFor(id)
          => /\ Len(store') = Len(store)
             /\ \A k \in DOMAIN store :
                    /\ Substance(store'[k]) = Substance(store[k])
                    /\ k # id => store'[k] = store[k] ]_vars

\* C18 witness: the task ran with each of its two endings, and the rows it
\* marked still carry what was submitted
C18_Witness ==
    \E id, k \in DOMAIN store :
        /\ store[id].sms_delivery_status = Some("sent")
        /\ store[k].sms_delivery_status = Some("failed")
        /\ \A i \in {id, k} : \E r \in DOMAIN req :
              /\ req[r].id = i
              /\ store[i].phone = Some(Strip(req[r].form.phone))

\* the notification-state fields of a row
Notification(row) == <<row.sms_sent, row.sms_sent_at, row.sms_delivery_status>>

\* the step is a run of the task
WorkerStep == \E id \in DOMAIN runs : RanFor(id)

\* the step answers one of the read-only routes
ReadStep == reply' # reply \/ success_page' # success_page \/ views' # views

\* C19: no step of the web tier changes the notification state of a stored
\* row; a row is added only by the insert of a POST /signup and starts with
\* sms_sent = false, sms_sent_at = null and sms_delivery_status = null; and
\* GET /, GET /success/<id>, GET /health and GET /metrics leave the rows, the
\* dedupe markers and the queue as they were.
C19_WebTierFrame ==
    [][ /\ ~WorkerStep
           => \A k \in DOMAIN store : Notification(store'[k]) = Notification(store[k])
        /\ store' # store /\ ~WorkerStep
           => /\ \E r \in DOMAIN req :
                    /\ req[r].pc = "checked"
                    /\ req'[r].pc = "inserted"
                    /\ req'[r].id = Len(store')
              /\ Len(store') = Len(store) + 1
              /\ Notification(Last(store')) = <<FALSE, None, None>>
        /\ ReadStep
           => /\ store' = store
              /\ Markers(cache') = Markers(cache)
              /\ queue' = queue ]_vars

\* C19 witness: with a row stored, its marker set and its job run, the form
\* page was served and cached, the success page was shown and the metrics read
C19_Witness ==
    /\ \E id \in DOMAIN store : store[id].sms_delivery_status # None
    /\ Markers(cache) # {}
    /\ cache \ Markers(cache) # {}
    /\ success_page.status = 200
    /\ reply.route = "metrics" /\ reply.status = 200 /\ reply.total = Len(store)

\* the ids of the rows of a table
Ids(table) == {table[k].id : k \in DOMAIN table}

\* C20: the table only grows: in every step each row that exists keeps its
\* place and its id, no two rows share an id, and no row disappears.
C20_RecordsOnlyGrow ==
    [][ /\ Len(store') >= Len(store)
        /\ Ids(store) \subseteq Ids(store')
        /\ Cardinality(Ids(store')) = Len(store')
        /\ \A k \in DOMAIN store : store'[k].id = store[k].id ]_vars

\* C20 witness: two rows were created and the task ran for the first; both
\* are there under the ids their requests were given
C20_Witness ==
    /\ Len(store) = 2
    /\ runs[1] # <<>>
    /\ \A k \in DOMAIN store :
          /\ store[k].id = k
          /\ \E r \in DOMAIN req : req[r].id = k /\ Done(r)

\* C21: when the worker is stopped in the middle of a run (and the deliveries
\* are not used up) the job is still in the queue, to be delivered again, and
\* the stopped run has committed nothing to the row.
C21_StoppedJobIsRedelivered ==
    [][ \A id \in DOMAIN runs :
          ( /\ RanFor(id)
            /\ Last(runs'[id]) = "stopped"
            /\ Len(runs'[id]) < MaxDeliveries )
          => /\ \E j \in queue' : j.signup_id = id
             /\ store' = store ]_vars

\* the digits of a typed number, in the order typed
DigitsOf(s) == SelectSeq(s, LAMBDA ch : ch \in Digits)

\* the test command c got as far as the cleaning of its number
Cleaned(c) == cli[c].printed \notin {"none", "asked", "not_configured"}

\* C22: the cleaning keeps the digits only; ten digits give '+1' and the
\* digits, eleven digits that start with 1 give '+' and the digits, anything
\* else (fewer, more, eleven without the leading 1, nothing) fails with the
\* ValueError and gives no number.
C22_CleanPhoneCases ==
    \A c \in Commands :
        Cleaned(c) =>
            LET d == DigitsOf(cli[c].phone)
                ten == Len(d) = 10
                eleven == Len(d) = 11 /\ d[1] = "1"
            IN /\ ten => cli[c].to_number = Some(<<"+", "1">> \o d)
               /\ eleven => cli[c].to_number = Some(<<"+">> \o d)
               /\ ~ten /\ ~eleven => /\ cli[c].to_number = None
                                     /\ cli[c].printed = "invalid_phone"

\* a ten-digit number typed with separators was cleaned and eleven digits
\* that start with 2 were refused
C22_Witness ==
    \E c, e \in Commands :
        /\ Cleaned(c) /\ Cleaned(e)
        /\ cli[c].phone # P_ok /\ DigitsOf(cli[c].phone) = P_ok
        /\ cli[c].to_number = Some(<<"+", "1">> \o P_ok)
        /\ DigitsOf(cli[e].phone) = <<"2">> \o P_ok
        /\ cli[e].printed = "invalid_phone"

\* C23: the cleaning depends on the digits alone: two numbers with the same
\* digits are both cleaned to the same number or both refused, and ten digits
\* and the same digits after a 1 are cleaned to the same number.
C23_SameDigitsSameNumber ==
    \A c, e \in Commands :
        Cleaned(c) /\ Cleaned(e) =>
            LET dc == DigitsOf(cli[c].phone)
                de == DigitsOf(cli[e].phone)
            IN /\ dc = de => cli[c].to_number = cli[e].to_number
               /\ Len(dc) = 10 /\ de = <<"1">> \o dc =>
                      /\ cli[c].to_number = cli[e].to_number
                      /\ cli[c].to_number # None

\* '(555) 123-4567' and '+15551234567' were both cleaned, to one number
C23_Witness ==
    \E c, e \in Commands :
        /\ Cleaned(c) /\ Cleaned(e)
        /\ cli[c].phone # P_ok /\ DigitsOf(cli[c].phone) = P_ok
        /\ cli[e].phone = <<"+", "1">> \o P_ok
        /\ cli[c].to_number = cli[e].to_number
        /\ cli[c].to_number # None

\* C24: an admitted POST /signup that selects a label outside the event
\* catalog is answered with the form again and a failure on events_interested,
\* and inserts no row, sets no marker and enqueues no job; so the labels of
\* every stored row are labels of the catalog.
C24_UnknownLabelRejected ==
    /\ \A r \in DOMAIN req :
          ( /\ req[r].pc # "idle"
            /\ req[r].status # 429
            /\ \E e \in Range(req[r].form.events_interested) :
                    e \notin Range(get_event_options) )
          => /\ req[r].status = 200
             /\ req[r].page = "form_errors"
             /\ FormErrors(req[r].form).events_interested # {}
             /\ req[r].id = 0
             /\ ~req[r].marked
             /\ req[r].enq = 0
    /\ \A i \in DOMAIN store :
          Range(store[i].events_interested) \subseteq Range(get_event_options)

\* a submission with a catalog label and an unknown one was turned down
\* while another submission was stored
C24_Witness ==
    /\ store # <<>>
    /\ \E r \in DOMAIN req :
          /\ req[r].pc = "done"
          /\ req[r].page = "form_errors"
          /\ Len(req[r].form.events_interested) = 2
          /\ \E e \in Range(req[r].form.events_interested) : e \in Range(get_event_options)
          /\ \E e \in Range(req[r].form.events_interested) : e \notin Range(get_event_options)

\* C25: every row created by POST /signup has at least one event label.
C25_EventsNeverEmpty ==
    \A i \in DOMAIN store : store[i].events_interested # <<>>

\* a row was stored and a submission without any event was turned down
C25_Witness ==
    /\ store # <<>>
    /\ \E r \in DOMAIN req :
          /\ req[r].pc = "done"
          /\ req[r].form.events_interested = <<>>
          /\ req[r].page = "form_errors"

\* the capital letters
Uppers ==
    {"A", "B", "C", "D", "E", "F", "G", "H", "I", "J", "K", "L", "M",
     "N", "O", "P", "Q", "R", "S", "T", "U", "V", "W", "X", "Y", "Z"}

\* C26: the email of every row is stored trimmed and in lower case: it has no
\* capital letter and no blank at either end, and it is the submitted email
\* trimmed and lower-cased, whatever the case it was typed in.
C26_EmailStoredNormalized ==
    /\ \A i \in DOMAIN store :
          LET e == store[i].email
          IN /\ \A k \in 1..Len(e) : e[k] \notin Uppers
             /\ e # <<>> => e[1] \notin Whitespace /\ e[Len(e)] \notin Whitespace
    /\ \A r \in DOMAIN req :
          req[r].id # 0 => store[req[r].id].email = NormEmail(req[r].form.email)

\* a row whose email was typed with a capital letter
C26_Witness ==
    \E r \in DOMAIN req :
        /\ req[r].id # 0
        /\ req[r].form.email = E_upper
        /\ store[req[r].id].email = E_lower

\* the rows created on the day of the clock
CreatedToday == {i \in DOMAIN store : store[i].created_at \div DAY = now \div DAY}

\* C27: with metrics enabled, an answered GET /metrics reports as
\* total_signups the number of rows in the store and as today_signups the
\* number of rows created at or after the start of the current UTC day.
C27_MetricsCountRows ==
    [][ ( /\ reply' # reply
          /\ reply'.route = "metrics"
          /\ metrics_enabled
          /\ reply'.status = 200 )
        => /\ reply'.total = Len(store)
           /\ reply'.today = Cardinality(CreatedToday) ]_vars

\* metrics reported two rows, one of them of today
C27_Witness ==
    /\ reply.route = "metrics"
    /\ reply.status = 200
    /\ reply.total = 2
    /\ reply.today = 1
    /\ Len(store) = 2

\* C28: while the SMS service is not configured, a run of the task ends with
\* the 'not configured' error, the sink is not called, and the row of the job
\* (when it exists) is marked 'failed' with sms_sent still false.
C28_NotConfiguredFails ==
    [][ \A id \in DOMAIN runs :
          (RanFor(id) /\ ~configured)
          => /\ Last(runs'[id]) = "not_configured"
             /\ sink_calls' = sink_calls
             /\ id \in DOMAIN store =>
                   /\ store'[id].sms_delivery_status = Some("failed")
                   /\ store'[id].sms_sent = FALSE
                   /\ store'[id].sms_sent_at = None ]_vars

\* the job of a row with a good number ran without a configured service
C28_Witness ==
    /\ ~configured
    /\ sink_calls = 0
    /\ \E id \in DOMAIN store :
          /\ runs[id] # <<>>
          /\ store[id].phone = Some(P_ok)
          /\ store[id].sms_delivery_status = Some("failed")
          /\ store[id].sms_sent = FALSE

\* C29: a job is enqueued only after its row is committed: every job in the
\* task queue carries the id of a row of the store, and the phone and the
\* name of that row.
C29_JobsHaveRows ==
    \A j \in queue :
        /\ j.signup_id \in DOMAIN store
        /\ store[j.signup_id].phone = Some(j.phone)
        /\ store[j.signup_id].name = j.name

\* the jobs of two rows wait in the queue
C29_Witness ==
    /\ Len(store) = 2
    /\ \A i \in DOMAIN store : \E j \in queue : j.signup_id = i

\* a step of GET /: a new response of the route, or a view counted
IndexStep == views' # views \/ (reply' # reply /\ reply'.route = "index")

\* C30: the limiter runs before the cache lookup and before the handler. A
\* POST /signup answered 429 is not validated (it gets the rate-limit page
\* whatever its form) and leaves the rows, the dedupe markers and the queue as
\* they were; a GET / over the limit is answered 429 even when the page is in
\* the cache and leaves rows, cache and queue alone; and a GET / within the
\* limit is counted whether the page comes from the cache or not.
C30_LimiterRunsFirst ==
    [][ /\ \A r \in DOMAIN req :
              (req[r].pc = "idle" /\ req'[r].status = 429)
              => /\ req'[r].pc = "done"
                 /\ req'[r].page = "rate_limit"
                 /\ req'[r].id = 0 /\ ~req'[r].marked /\ req'[r].enq = 0
                 /\ store' = store
                 /\ Markers(cache') = Markers(cache)
                 /\ queue' = queue
        /\ IndexStep
           => LET ip == reply'.ip
              IN /\ store' = store /\ queue' = queue
                 /\ Markers(cache') = Markers(cache)
                 /\ IF views[ip] >= VIEW_LIMIT
                    THEN reply'.status = 429 /\ cache' = cache /\ views' = views
                    ELSE reply'.status = 200 /\ views'[ip] = views[ip] + 1 ]_vars

\* both clients used up their views, the second served from the cache, a view
\* and a submission were answered 429, and a row is stored
C30_Witness ==
    /\ \A ip \in Clients : views[ip] = VIEW_LIMIT
    /\ cache_get(form_config)
    /\ reply.route = "index" /\ reply.status = 429
    /\ \E r \in DOMAIN req : req[r].status = 429 /\ req[r].form.name = <<>>
    /\ store # <<>>

\* the fields of a form whose rule is broken
Violated(form) == {f \in FormFields : RuleViolated(form, f)}

\* C31: validation does not stop at the first invalid field: an admitted
\* submission that breaks the rules of several fields is answered with a
\* failure for every one of those fields.
C31_AllViolationsReported ==
    \A r \in DOMAIN req :
        ( /\ req[r].pc # "idle"
          /\ req[r].status # 429
          /\ Cardinality(Violated(req[r].form)) >= 2 )
        => /\ req[r].page = "form_errors"
           /\ Violated(req[r].form) \subseteq req[r].errors

\* C32: a POST /signup answered with the 500 error page has stored no row
\* and set no dedupe marker, whichever step of the handler failed.
C32_ErrorLeavesNothing ==
    \A r \in DOMAIN req :
        req[r].status = 500
        => /\ req[r].id = 0
           /\ ~req[r].marked

\* C33: a dedupe marker is set only after the insert has committed: while
\* the cache holds an unexpired marker for an email, the store holds a row
\* created from a submission with that email.
C33_MarkerHasRow ==
    \A m \in Markers(cache) :
        now < m.expires
        => \E r \in DOMAIN req :
              /\ req[r].id \in DOMAIN store
              /\ <<"email_check:">> \o req[r].form.email = m.key
              /\ store[req[r].id].email = NormEmail(Tail(m.key))

\* a marker is set for a stored row while another submission failed at its
\* insert and left no marker
C33_Witness ==
    /\ \E m \in Markers(cache) : now < m.expires /\ Tail(m.key) = E_upper
    /\ Cardinality(Markers(cache)) = 1
    /\ \E r \in DOMAIN req : req[r].fault = "insert" /\ req[r].form.email = E_lower

\* C34: a row marked 'failed' belongs to a signup for which the sink never
\* accepted a message: no run of its job ended with a successful send.
C34_FailedNeverAccepted ==
    \A id \in DOMAIN store :
        store[id].sms_delivery_status = Some("failed")
        => \A k \in 1..Len(runs[id]) : runs[id][k] # "sent"

\* C35: a row whose sms_delivery_status is 'sent' has sms_sent = true; the
\* status is null, 'sent' or 'failed' and nothing else; a row starts with
\* null, and only a run of the row's task changes the status.
C35_StatusValues ==
    [][ \A id \in DOMAIN store' :
          LET row == store'[id]
          IN /\ row.sms_delivery_status \in {None, Some("sent"), Some("failed")}
             /\ row.sms_delivery_status = Some("sent") => row.sms_sent = TRUE
             /\ id \notin DOMAIN store => row.sms_delivery_status = None
             /\ ( /\ id \in DOMAIN store
                  /\ store[id].sms_delivery_status # row.sms_delivery_status )
                => RanFor(id) ]_vars

\* one row is marked sent, with its flag, and another is marked failed
C35_Witness ==
    \E a, b \in DOMAIN store :
        /\ store[a].sms_delivery_status = Some("sent")
        /\ store[a].sms_sent = TRUE
        /\ store[b].sms_delivery_status = Some("failed")
        /\ store[b].sms_sent = FALSE

\* C36: the cleaning is idempotent on its successes: a number it returns is
\* '+1' followed by exactly ten digits, and that number typed in again is
\* cleaned to itself.
C36_CleanIdempotent ==
    \A c \in Commands :
        (Cleaned(c) /\ cli[c].to_number # None)
        => LET n == TheValue(cli[c].to_number)
           IN /\ Len(n) = 12
              /\ n[1] = "+" /\ n[2] = "1"
              /\ \A k \in 3..Len(n) : n[k] \in Digits
              /\ \A e \in Commands :
                    (Cleaned(e) /\ cli[e].phone = n) => cli[e].to_number = Some(n)

\* a number typed with separators was cleaned, and the cleaned number typed
\* into the other run came back unchanged
C36_Witness ==
    \E c, e \in Commands :
        /\ Cleaned(c) /\ Cleaned(e)
        /\ cli[c].to_number # None
        /\ cli[c].phone # TheValue(cli[c].to_number)
        /\ cli[e].phone = TheValue(cli[c].to_number)
        /\ cli[e].to_number = cli[c].to_number

====
